---- MODULE Spec2Model ----
(***************************************************************************)
(* Model of src/nox.py: the sample-directory discoverer                    *)
(* (collect_sample_dirs), the requirements lister (list_files), the        *)
(* changed-file filter (get_changed_files, filter_samples) and the test    *)
(* driver (run_tests_in_sesssion) with the sessions that call it.          *)
(*                                                                         *)
(* Path strings are sequences of one-character strings, so that prefix     *)
(* tests, "./" stripping and os.path.join are computed on characters.      *)
(* A directory of the file system is a sequence of names (its path from    *)
(* the working directory); <<>> is the working directory itself.           *)
(***************************************************************************)
EXTENDS Naturals, Sequences, FiniteSets

VARIABLES
    dirs,               \* file system: the directories below the working directory
    files,              \* file system: directory -> set of file names directly in it
    listRev,            \* file system: whether os.listdir reports names in reverse order
    start_dir,          \* collect_sample_dirs: its start_dir argument
    blacklist,          \* collect_sample_dirs: its blacklist argument
    walk,               \* collect_sample_dirs: the generator's state
    wpc,                \* collect_sample_dirs: "idle" | "walking" | "done"
    sample_dirs,        \* filter_samples: its sample_dirs argument
    changed_files,      \* filter_samples: its changed_files argument
    filtered,           \* filter_samples: the list returned by the first call
    refiltered,         \* filter_samples: the list returned when fed its own output
    fpc,                \* filter_samples: "start" | "filtered" | "refiltered"
    session,            \* run: the arguments the session function passes to run_tests_in_sesssion
    posargs,            \* run: session.posargs
    env,                \* run: os.environ (the TRAVIS_* variables)
    pythonpath,         \* run: whether session.env['PYTHONPATH'] was set
    pc,                 \* run: position in run_tests_in_sesssion
    candidates,         \* run: sample_directories, a list followed by unconsumed generators
    changes,            \* run: how the call of get_changed_files ended (exception, set)
    sample,             \* run: the loop variable `sample`
    reqs,               \* run: requirements files of `sample` not yet installed
    log,                \* run: the external commands executed, with their exit status
    walked              \* run: whether a collect_sample_dirs generator was advanced

fsVars == <<dirs, files, listRev>>
walkVars == <<start_dir, blacklist, walk, wpc>>
filterVars == <<sample_dirs, changed_files, filtered, refiltered, fpc>>
runVars == <<session, posargs, env, pythonpath, pc, candidates, changes, sample, reqs, log, walked>>

----------------------------------------------------------------------------
(* Sequences and characters *)

Range(s) == {s[i] : i \in 1..Len(s)}

Reverse(s) == [i \in 1..Len(s) |-> s[Len(s) + 1 - i]]

\* every ordering of a finite set as a sequence without repetition
Orderings(S) ==
    {s \in [1..Cardinality(S) -> S] : \A i, j \in 1..Cardinality(S) : s[i] = s[j] => i = j}

\* the characters for which str.isalpha() holds (ASCII)
Letters ==
    {"a", "b", "c", "d", "e", "f", "g", "h", "i", "j", "k", "l", "m",
     "n", "o", "p", "q", "r", "s", "t", "u", "v", "w", "x", "y", "z",
     "A", "B", "C", "D", "E", "F", "G", "H", "I", "J", "K", "L", "M",
     "N", "O", "P", "Q", "R", "S", "T", "U", "V", "W", "X", "Y", "Z"}

Slash == <<"/">>
Dot == <<".">>
DotSlash == <<".", "/">>

\* str.startswith
StartsWith(s, p) == Len(p) <= Len(s) /\ SubSeq(s, 1, Len(p)) = p

\* s[-n:]
LastChars(s, n) == IF Len(s) <= n THEN s ELSE SubSeq(s, Len(s) - n + 1, Len(s))

\* s[n:]
DropChars(s, n) == IF Len(s) <= n THEN <<>> ELSE SubSeq(s, n + 1, Len(s))

\* str.split('/')
RECURSIVE SplitFrom(_, _)
SplitFrom(s, cur) ==
    IF s = <<>> THEN <<cur>>
    ELSE IF Head(s) = "/" THEN <<cur>> \o SplitFrom(Tail(s), <<>>)
    ELSE SplitFrom(Tail(s), Append(cur, Head(s)))
Split(s) == SplitFrom(s, <<>>)

\* os.path.join(path, name) for a relative name
Join(path, name) ==
    IF path = <<>> THEN name
    ELSE IF path[Len(path)] = "/" THEN path \o name
    ELSE path \o Slash \o name

\* the directory a relative path string names: its components without "" and "."
Resolve(s) == SelectSeq(Split(s), LAMBDA c : c # <<>> /\ c # Dot)

\* the path string of directory node n reached from the string pre
RECURSIVE PathOf(_, _)
PathOf(pre, n) == IF n = <<>> THEN pre ELSE PathOf(Join(pre, Head(n)), Tail(n))

IsPrefixSeq(p, s) == Len(p) <= Len(s) /\ SubSeq(s, 1, Len(p)) = p

----------------------------------------------------------------------------
(* Names and file names *)

N_a == <<"a">>
N_b == <<"b">>
N_c == <<"_", "c">>

N_appengine == <<"a", "p", "p", "e", "n", "g", "i", "n", "e">>
N_standard == <<"s", "t", "a", "n", "d", "a", "r", "d">>
N_bigtable == <<"b", "i", "g", "t", "a", "b", "l", "e">>
N_speech == <<"s", "p", "e", "e", "c", "h">>
N_testing == <<"t", "e", "s", "t", "i", "n", "g">>
N_lib == <<"l", "i", "b">>

\* the order in which os.listdir reports names (reversed when listRev)
AllNames ==
    <<N_a, N_b, N_c, N_appengine, N_standard, N_bigtable, N_speech, N_testing, N_lib>>

F_test == <<"a", "_", "t", "e", "s", "t", ".", "p", "y">>
F_conftest == <<"c", "o", "n", "f", "t", "e", "s", "t", ".", "p", "y">>

F_requirements == <<"r", "e", "q", "u", "i", "r", "e", "m", "e", "n", "t", "s", ".", "t", "x", "t">>
F_readme == <<"R", "E", "A", "D", "M", "E">>

\* the order in which os.walk reports the files of a directory (reversed when listRev)
AllFiles == <<F_conftest, F_requirements, F_test>>

TestSuffix == <<"_", "t", "e", "s", "t", ".", "p", "y">>

----------------------------------------------------------------------------
(* collect_sample_dirs *)

\* variant: the suffix compared without its underscore
HasTestFileLoose(fl) == \E f \in fl : LastChars(f, 7) = Tail(TestSuffix)

\* any(f for f in files if f[-8:] == '_test.py')
HasTestFile(fl) == \E f \in fl : LastChars(f, 8) = TestSuffix

\* os.path.isdir
IsDir(path) == path # <<>> /\ Resolve(path) \in dirs

\* the subdirs list os.walk hands out for a directory
ListDir(node) ==
    SelectSeq(IF listRev THEN Reverse(AllNames) ELSE AllNames,
              LAMBDA n : Append(node, n) \in dirs)

\* variant: the subdirs list left as os.walk filled it
KeepAllSubdirs(subdirs) == subdirs

\* del subdirs[:]
PruneSubdirs(subdirs) == <<>>

\* variants: the filter without its first, and without its second, condition
KeepSubdirAnyName(parent, s, bl) == Join(parent, s) \notin bl
KeepSubdirNoBlacklist(parent, s, bl) == Head(s) \in Letters

\* s[0].isalpha() and os.path.join(parent, s) not in blacklist
KeepSubdir(parent, s, bl) == Head(s) \in Letters /\ Join(parent, s) \notin bl

\* One iteration of `for parent, subdirs, files in os.walk(start_dir)`:
\* os.walk lists the next pending directory, the loop body yields it or filters
\* subdirs in place, and os.walk then queues join(parent, s) for the subdirs left.
\* A directory that cannot be listed is skipped (os.walk's onerror is None).
WalkStep(w, bl) ==
    LET parent == Head(w.pending)
        node == Resolve(parent)
        rest == Tail(w.pending)
    IN  IF ~IsDir(parent)
        THEN [w EXCEPT !.pending = rest]
        ELSE LET subdirs == ListDir(node)
                 hit == HasTestFile(files[node])
                 left == IF hit
                         THEN PruneSubdirs(subdirs)
                         ELSE SelectSeq(subdirs, LAMBDA s : KeepSubdir(parent, s, bl))
             IN  [pending |-> [i \in 1..Len(left) |-> Join(parent, left[i])] \o rest,
                  yielded |-> IF hit THEN Append(w.yielded, parent) ELSE w.yielded,
                  visited |-> Append(w.visited, parent)]

\* the generator collect_sample_dirs(start_dir, blacklist) before its first next()
NewWalk(start) == [pending |-> <<start>>, yielded |-> <<>>, visited |-> <<>>]

\* list(collect_sample_dirs(...)): the generator run to exhaustion
RECURSIVE WalkAll(_, _)
WalkAll(w, bl) == IF w.pending = <<>> THEN w ELSE WalkAll(WalkStep(w, bl), bl)

collect_sample_dirs(start, bl) == WalkAll(NewWalk(start), bl).yielded

----------------------------------------------------------------------------
(* filter_samples *)

\* variant: sample_dir[2:] taken without the startswith test
StripAlways(sample_dir) == DropChars(sample_dir, 2)

\* if sample_dir.startswith('./'): sample_dir = sample_dir[2:]
StripDotSlash(sample_dir) ==
    IF StartsWith(sample_dir, DotSlash) THEN DropChars(sample_dir, 2) ELSE sample_dir

\* variant: equality in place of the prefix test
ChangedEquals(changed_file, sample_dir) == changed_file = sample_dir

\* changed_file.startswith(sample_dir)
ChangedUnder(changed_file, sample_dir) == StartsWith(changed_file, sample_dir)

\* the list `result` when the loops end: one append per matching changed file
RECURSIVE ResultList(_, _)
ResultList(sds, changed) ==
    IF sds = <<>> THEN <<>>
    ELSE LET sample_dir == StripDotSlash(Head(sds))
             n == Cardinality({f \in changed : ChangedUnder(f, sample_dir)})
         IN  [i \in 1..n |-> sample_dir] \o ResultList(Tail(sds), changed)

\* variant: an empty changed-file set taken to mean that every candidate changed
filter_samples_all(sds, changed) ==
    IF changed = {} THEN Orderings(Range(sds)) ELSE Orderings(Range(ResultList(sds, changed)))

\* list(set(result)): the lists filter_samples may return
filter_samples(sds, changed) == Orderings(Range(ResultList(sds, changed)))

----------------------------------------------------------------------------
(* list_files *)

\* the glob 'requirements*.txt': a literal head, one star, a literal tail
ReqPattern == [head |-> <<"r", "e", "q", "u", "i", "r", "e", "m", "e", "n", "t", "s">>,
               tail |-> <<".", "t", "x", "t">>]

\* fnmatch.fnmatch(filename, pattern) for a pattern with one star
Fnmatch(filename, pattern) ==
    /\ Len(filename) >= Len(pattern.head) + Len(pattern.tail)
    /\ StartsWith(filename, pattern.head)
    /\ LastChars(filename, Len(pattern.tail)) = pattern.tail

\* the files list os.walk hands out for a directory
ListFilesOf(node) ==
    SelectSeq(IF listRev THEN Reverse(AllFiles) ELSE AllFiles, LAMBDA f : f \in files[node])

\* list(list_files(folder, pattern)): os.walk without pruning, the matching files
\* of each directory joined to its path
RECURSIVE ListFilesFrom(_, _)
ListFilesFrom(pending, pattern) ==
    IF pending = <<>> THEN <<>>
    ELSE LET root == Head(pending)
             node == Resolve(root)
         IN  IF ~IsDir(root) THEN ListFilesFrom(Tail(pending), pattern)
             ELSE LET folders == ListDir(node)
                      hits == SelectSeq(ListFilesOf(node), LAMBDA f : Fnmatch(f, pattern))
                  IN  [i \in 1..Len(hits) |-> Join(root, hits[i])] \o
                      ListFilesFrom([i \in 1..Len(folders) |-> Join(root, folders[i])]
                                        \o Tail(pending), pattern)

list_files(folder, pattern) == ListFilesFrom(<<folder>>, pattern)

\* os.path.dirname
RECURSIVE RStripSlash(_)
RStripSlash(p) ==
    IF p # <<>> /\ p[Len(p)] = "/" THEN RStripSlash(SubSeq(p, 1, Len(p) - 1)) ELSE p

LastSlash(p) ==
    LET at == {i \in 1..Len(p) : p[i] = "/"}
    IN  IF at = {} THEN 0 ELSE CHOOSE i \in at : \A j \in at : j <= i

Dirname(p) ==
    LET head == SubSeq(p, 1, LastSlash(p))
    IN  IF RStripSlash(head) = <<>> THEN head ELSE RStripSlash(head)

----------------------------------------------------------------------------
(* get_changed_files *)

None == "None"

\* what `git show --name-only` / `git diff --name-only` may print: paths of the
\* repository, one per line
GitPaths ==
    {N_a \o Slash \o <<"x">>, N_speech \o Slash \o <<"x">>,
     N_appengine \o Slash \o N_standard \o Slash \o <<"x">>, F_readme}

\* subprocess.check_output(argv) and the split of its output: a None among the
\* arguments raises TypeError; otherwise git may exit non-zero (CalledProcessError)
\* or its output may not split on a str (bytes, under Python 3), which raise too,
\* or the non-empty lines of its output are returned
CheckOutput(argv, outputs) ==
    IF \E i \in 1..Len(argv) : argv[i] = None
    THEN {[raised |-> "TypeError", set |-> {}]}
    ELSE {[raised |-> e, set |-> {}] : e \in {"CalledProcessError", "TypeError"}}
             \cup {[raised |-> "", set |-> o] : o \in outputs}

\* get_changed_files(): how the call may end, for the environment e and the
\* outputs git may give
get_changed_files(e, outputs) ==
    IF e.TRAVIS_PULL_REQUEST = "false"
    THEN CheckOutput(<<e.TRAVIS_COMMIT>>, outputs)
    ELSE IF e.TRAVIS_PULL_REQUEST # None
    THEN CheckOutput(<<e.TRAVIS_COMMIT, e.TRAVIS_BRANCH>>, outputs)
    ELSE {[raised |-> "", set |-> {}]}

----------------------------------------------------------------------------
(* run_tests_in_sesssion and the sessions *)

TESTS_BLACKLIST ==
    {DotSlash \o N_appengine \o Slash \o N_standard,
     DotSlash \o N_bigtable,
     DotSlash \o N_speech,
     DotSlash \o N_testing}
APPENGINE_BLACKLIST == {}

\* a generator collect_sample_dirs(start, bl) that has not run yet
Gen(start, bl) == [w |-> NewWalk(start), bl |-> bl]

NoDirs == [given |-> FALSE, gens |-> <<>>]
GaeDirs ==
    [given |-> TRUE,
     gens |-> <<Gen(N_appengine \o Slash \o N_standard, APPENGINE_BLACKLIST)>>]
GrpcDirs == [given |-> TRUE, gens |-> <<Gen(N_speech, {}), Gen(N_bigtable, {})>>]

Args(interpreter, use_appengine, skip_flaky, changed_only, sample_directories) ==
    [interpreter |-> interpreter, use_appengine |-> use_appengine,
     skip_flaky |-> skip_flaky, changed_only |-> changed_only,
     sample_directories |-> sample_directories]

session_tests == {Args(i, FALSE, FALSE, FALSE, NoDirs) : i \in {"python2.7", "python3.4"}}
session_gae == Args("python2.7", TRUE, FALSE, FALSE, GaeDirs)
session_grpc == Args("python2.7", FALSE, FALSE, FALSE, GrpcDirs)
session_travis ==
    {Args("python3.4", FALSE, TRUE, TRUE, NoDirs), Args("python2.7", TRUE, TRUE, TRUE, GaeDirs)}

Sessions == session_tests \cup {session_gae, session_grpc} \cup session_travis

\* variant: py.test's "no tests collected" not among the success codes
success_codes_zero == {0}

\* success_codes=[0, 5] of the py.test invocation; every other command has nox's
\* default, [0]
success_codes == {0, 5}
default_success_codes == {0}

\* variant: the session's own sample_directories tested before session.posargs
SelectGiven(args, pos) ==
    IF args.sample_directories.given
    THEN [items |-> <<>>, gens |-> args.sample_directories.gens]
    ELSE IF pos # <<>>
    THEN [items |-> pos, gens |-> <<>>]
    ELSE [items |-> <<>>, gens |-> <<Gen(Dot, TESTS_BLACKLIST)>>]

\* if session.posargs: ... elif sample_directories is None: ...
\* the value of sample_directories before the loop, as a list followed by the
\* generators still to be consumed
Select(args, pos) ==
    IF pos # <<>>
    THEN [items |-> pos, gens |-> <<>>]
    ELSE IF ~args.sample_directories.given
    THEN [items |-> <<>>, gens |-> <<Gen(Dot, TESTS_BLACKLIST)>>]
    ELSE [items |-> <<>>, gens |-> args.sample_directories.gens]

\* next(iter(sample_directories)): the next item, the iterator after it, and
\* whether a generator was advanced to get it
RECURSIVE Pull(_, _)
Pull(it, adv) ==
    IF it.items # <<>>
    THEN [some |-> TRUE, item |-> Head(it.items),
          it |-> [it EXCEPT !.items = Tail(it.items)], advanced |-> adv]
    ELSE IF it.gens = <<>>
    THEN [some |-> FALSE, item |-> <<>>, it |-> it, advanced |-> adv]
    ELSE LET g == Head(it.gens)
         IN  IF g.w.pending = <<>>
             THEN Pull([it EXCEPT !.gens = Tail(it.gens)], TRUE)
             ELSE LET w2 == WalkStep(g.w, g.bl)
                      it2 == [it EXCEPT !.gens = <<[g EXCEPT !.w = w2]>> \o Tail(it.gens)]
                  IN  IF Len(w2.yielded) > Len(g.w.yielded)
                      THEN [some |-> TRUE, item |-> w2.yielded[Len(w2.yielded)],
                            it |-> it2, advanced |-> TRUE]
                      ELSE Pull(it2, TRUE)

\* list(sample_directories): every item left, and whether a generator was advanced
RECURSIVE Drain(_, _)
Drain(it, adv) ==
    LET r == Pull(it, adv)
    IN  IF ~r.some THEN [list |-> <<>>, advanced |-> r.advanced]
        ELSE LET d == Drain(r.it, r.advanced)
             IN  [list |-> <<r.item>> \o d.list, advanced |-> d.advanced]

----------------------------------------------------------------------------
(* Bounds and input pools *)

MaxDirs == 3          \* directories below the working directory in a drawn tree
MaxBlacklist == 1     \* entries in a drawn blacklist
MaxDotSlash == 2      \* leading "./" repetitions of a drawn candidate path
MaxCands == 2         \* length of a drawn candidate list
MaxChanged == 2       \* size of a drawn changed-file set

WalkNames == {N_a, N_b, N_c}

\* the prefix-closed sets of at most n directories below the working directory
RECURSIVE TreesUpTo(_)
TreesUpTo(n) ==
    IF n = 0 THEN {{<<>>}}
    ELSE LET smaller == TreesUpTo(n - 1)
         IN  smaller \cup
             UNION {{t \cup {Append(p, nm)} : p \in t, nm \in WalkNames} : t \in smaller}

\* what a drawn directory holds: no test file (conftest.py is none), or one
FileSets == {{F_conftest}, {F_conftest, F_test}}

StartDirs == {Dot, N_a, DotSlash \o N_a}

\* spellings of the tree's directories a blacklist may hold
BlacklistPool(t) == {PathOf(pre, n) : pre \in {Dot, <<>>}, n \in t \ {<<>>}}

SubsetsUpTo(S, n) == {x \in SUBSET S : Cardinality(x) <= n}

RECURSIVE SeqsUpTo(_, _)
SeqsUpTo(S, n) ==
    IF n = 0 THEN {<<>>}
    ELSE LET shorter == SeqsUpTo(S, n - 1)
         IN  shorter \cup {Append(s, x) : s \in shorter, x \in S}

RECURSIVE DotSlashes(_)
DotSlashes(k) == IF k = 0 THEN <<>> ELSE DotSlash \o DotSlashes(k - 1)

CandidatePool ==
    {DotSlashes(k) \o stem : k \in 0..MaxDotSlash,
                             stem \in {<<>>, N_a, N_a \o N_b, N_b}}

ChangedPool ==
    {N_a \o Slash \o <<"x">>, N_a \o N_b \o Slash \o <<"x">>,
     DotSlash \o N_a \o Slash \o <<"x">>, <<"x">>, N_b}

----------------------------------------------------------------------------
(* collect_sample_dirs run as a generator over a drawn tree *)

NoChanges == [known |-> FALSE, raised |-> "", set |-> {}]
NoCandidates == [items |-> <<>>, gens |-> <<>>]

IdleRun ==
    /\ session = Args("python2.7", FALSE, FALSE, FALSE, NoDirs)
    /\ posargs = <<>>
    /\ env = [TRAVIS_PULL_REQUEST |-> None, TRAVIS_COMMIT |-> None, TRAVIS_BRANCH |-> None]
    /\ pythonpath = FALSE
    /\ pc = "idle"
    /\ candidates = NoCandidates
    /\ changes = NoChanges
    /\ sample = <<>> /\ reqs = <<>> /\ log = <<>>
    /\ walked = FALSE

IdleFilter ==
    /\ sample_dirs = <<>> /\ changed_files = {}
    /\ filtered = <<>> /\ refiltered = <<>> /\ fpc = "idle"

InitWalk ==
    /\ dirs \in TreesUpTo(MaxDirs)
    /\ files \in [dirs -> FileSets]
    /\ listRev \in BOOLEAN
    /\ start_dir \in StartDirs
    /\ blacklist \in SubsetsUpTo(BlacklistPool(dirs), MaxBlacklist)
    /\ walk = NewWalk(start_dir)
    /\ wpc = "walking"
    /\ IdleFilter /\ IdleRun

\* next(generator): one iteration of os.walk's loop
WalkNext ==
    /\ wpc = "walking" /\ walk.pending # <<>>
    /\ walk' = WalkStep(walk, blacklist)
    /\ UNCHANGED <<fsVars, start_dir, blacklist, wpc, filterVars, runVars>>

\* StopIteration
WalkStop ==
    /\ wpc = "walking" /\ walk.pending = <<>>
    /\ wpc' = "done"
    /\ UNCHANGED <<fsVars, start_dir, blacklist, walk, filterVars, runVars>>

NextWalk == WalkNext \/ WalkStop

----------------------------------------------------------------------------
(* filter_samples applied to drawn inputs, then to its own output *)

IdleFs == dirs = {<<>>} /\ files = [d \in {<<>>} |-> {}] /\ listRev = FALSE

IdleWalk ==
    /\ start_dir = Dot /\ blacklist = {}
    /\ walk = [pending |-> <<>>, yielded |-> <<>>, visited |-> <<>>]
    /\ wpc = "idle"

InitFilter ==
    /\ sample_dirs \in SeqsUpTo(CandidatePool, MaxCands)
    /\ changed_files \in SubsetsUpTo(ChangedPool, MaxChanged)
    /\ filtered = <<>> /\ refiltered = <<>> /\ fpc = "start"
    /\ IdleFs /\ IdleWalk /\ IdleRun

Filter ==
    /\ fpc = "start"
    /\ filtered' \in filter_samples(sample_dirs, changed_files)
    /\ fpc' = "filtered"
    /\ UNCHANGED <<fsVars, walkVars, runVars, sample_dirs, changed_files, refiltered>>

Refilter ==
    /\ fpc = "filtered"
    /\ refiltered' \in filter_samples(filtered, changed_files)
    /\ fpc' = "refiltered"
    /\ UNCHANGED <<fsVars, walkVars, runVars, sample_dirs, changed_files, filtered>>

NextFilter == Filter \/ Refilter

----------------------------------------------------------------------------
(* One nox session that calls run_tests_in_sesssion *)

\* the repository: a sample "a", the App Engine samples, the speech samples; each
\* of the three holds a test and a requirements file, or neither
RunDirs == {<<>>, <<N_a>>, <<N_appengine>>, <<N_appengine, N_standard>>, <<N_speech>>}
SampleNodes == {<<N_a>>, <<N_appengine, N_standard>>, <<N_speech>>}
RunFiles == {[d \in RunDirs |-> IF d \in T THEN {F_test, F_requirements} ELSE {}] :
                 T \in SUBSET SampleNodes}

PosargsPool ==
    {<<>>, <<N_a>>, <<DotSlash \o N_a, N_speech, N_b>>, <<N_a \o Slash \o F_test>>}

EnvPool ==
    [TRAVIS_PULL_REQUEST : {None, "false", "17"},
     TRAVIS_COMMIT : {None, "c0ffee"},
     TRAVIS_BRANCH : {None, "master"}]

\* exit statuses of pip / gcprepotools, and of py.test
ToolCodes == {0, 1}
PytestCodes == {0, 1, 2, 5}

InitRun ==
    /\ dirs = RunDirs
    /\ files \in RunFiles
    /\ listRev \in BOOLEAN
    /\ session \in Sessions
    /\ posargs \in PosargsPool
    /\ env \in EnvPool
    /\ pythonpath = FALSE
    /\ pc = "start"
    /\ candidates = NoCandidates
    /\ changes = NoChanges
    /\ sample = <<>> /\ reqs = <<>> /\ log = <<>>
    /\ walked = FALSE
    /\ IdleWalk /\ IdleFilter

Command(cmd, smp, arg, code) == [cmd |-> cmd, sample |-> smp, arg |-> arg, code |-> code]

\* session.install / session.run of nox: the command runs, and an exit status
\* outside the success codes raises CommandFailed, which ends the session
After(code, ok_codes, next) == IF code \in ok_codes THEN next ELSE "failed"

\* session.install(REPO_TOOLS_REQ)
InstallRepoTools ==
    /\ pc = "start"
    /\ \E code \in ToolCodes :
           /\ log' = Append(log, Command("install", <<>>, "REPO_TOOLS_REQ", code))
           /\ pc' = After(code, default_success_codes, "dev")
    /\ UNCHANGED <<fsVars, walkVars, filterVars, session, posargs, env, pythonpath,
                   candidates, changes, sample, reqs, walked>>

\* session.install('-r', 'requirements-{}-dev.txt'.format(interpreter))
InstallDevRequirements ==
    /\ pc = "dev"
    /\ \E code \in ToolCodes :
           /\ log' = Append(log, Command("install", <<>>, session.interpreter, code))
           /\ pc' = After(code, default_success_codes,
                          IF session.use_appengine THEN "gae" ELSE "select")
    /\ UNCHANGED <<fsVars, walkVars, filterVars, session, posargs, env, pythonpath,
                   candidates, changes, sample, reqs, walked>>

\* setup_appengine(session)
setup_appengine ==
    /\ pc = "gae"
    /\ pythonpath' = TRUE
    /\ \E code \in ToolCodes :
           /\ log' = Append(log, Command("gcprepotools", <<>>, "download-appengine-sdk", code))
           /\ pc' = After(code, default_success_codes, "select")
           /\ IF code \in default_success_codes /\ <<N_lib>> \notin dirs
              THEN /\ dirs' = dirs \cup {<<N_lib>>}
                   /\ files' = [d \in dirs \cup {<<N_lib>>} |->
                                   IF d \in dirs THEN files[d] ELSE {}]
              ELSE UNCHANGED <<dirs, files>>
    /\ UNCHANGED <<listRev, walkVars, filterVars, session, posargs, env,
                   candidates, changes, sample, reqs, walked>>

\* if session.posargs: ... elif sample_directories is None: ...
SelectSamples ==
    /\ pc = "select"
    /\ candidates' = Select(session, posargs)
    /\ pc' = IF session.changed_only THEN "changed" ELSE "loop"
    /\ UNCHANGED <<fsVars, walkVars, filterVars, session, posargs, env, pythonpath,
                   changes, sample, reqs, log, walked>>

\* changed_files = get_changed_files()
GetChangedFiles ==
    /\ pc = "changed"
    /\ \E r \in get_changed_files(env, SubsetsUpTo(GitPaths, MaxChanged)) :
           /\ changes' = [known |-> TRUE, raised |-> r.raised, set |-> r.set]
           /\ pc' = IF r.raised # "" THEN "crashed" ELSE "filter"
    /\ UNCHANGED <<fsVars, walkVars, filterVars, session, posargs, env, pythonpath,
                   candidates, sample, reqs, log, walked>>

\* sample_directories = filter_samples(sample_directories, changed_files)
FilterSamples ==
    /\ pc = "filter"
    /\ LET d == Drain(candidates, FALSE)
       IN  /\ \E l \in filter_samples(d.list, changes.set) :
                  candidates' = [items |-> l, gens |-> <<>>]
           /\ walked' = (walked \/ d.advanced)
    /\ pc' = "loop"
    /\ UNCHANGED <<fsVars, walkVars, filterVars, session, posargs, env, pythonpath,
                   changes, sample, reqs, log>>

\* for sample in sample_directories: dirname = ...; the requirements files to install
NextSample ==
    /\ pc = "loop"
    /\ LET r == Pull(candidates, FALSE)
       IN  /\ candidates' = r.it
           /\ walked' = (walked \/ r.advanced)
           /\ IF r.some
              THEN /\ sample' = r.item
                   /\ reqs' = list_files(IF IsDir(r.item) THEN r.item ELSE Dirname(r.item),
                                         ReqPattern)
                   /\ pc' = "install"
              ELSE /\ pc' = "done"
                   /\ UNCHANGED <<sample, reqs>>
    /\ UNCHANGED <<fsVars, walkVars, filterVars, session, posargs, env, pythonpath,
                   changes, log>>

\* session.install('-r', reqfile)
InstallRequirements ==
    /\ pc = "install" /\ reqs # <<>>
    /\ \E code \in ToolCodes :
           /\ log' = Append(log, Command("install-r", sample, Head(reqs), code))
           /\ pc' = After(code, default_success_codes, "install")
    /\ reqs' = Tail(reqs)
    /\ UNCHANGED <<fsVars, walkVars, filterVars, session, posargs, env, pythonpath,
                   candidates, changes, sample, walked>>

\* session.run('py.test', sample, ..., success_codes=[0, 5])
RunPytest ==
    /\ pc = "install" /\ reqs = <<>>
    /\ \E code \in PytestCodes :
           /\ log' = Append(log, Command("py.test", sample, session.skip_flaky, code))
           /\ pc' = After(code, success_codes, "loop")
    /\ UNCHANGED <<fsVars, walkVars, filterVars, session, posargs, env, pythonpath,
                   candidates, changes, sample, reqs, walked>>

NextRun ==
    \/ InstallRepoTools \/ InstallDevRequirements \/ setup_appengine
    \/ SelectSamples \/ GetChangedFiles \/ FilterSamples
    \/ NextSample \/ InstallRequirements \/ RunPytest

vars == <<fsVars, walkVars, filterVars, runVars>>

SpecWalk == InitWalk /\ [][NextWalk]_vars
SpecFilter == InitFilter /\ [][NextFilter]_vars
SpecRun == InitRun /\ [][NextRun]_vars

----------------------------------------------------------------------------
(* Properties of collect_sample_dirs, checked under SpecWalk *)

\* the file name ends with '_test.py'
EndsWithTestSuffix(f) ==
    Len(f) >= Len(TestSuffix) /\ SubSeq(f, Len(f) - Len(TestSuffix) + 1, Len(f)) = TestSuffix

HoldsTest(d) == \E f \in files[d] : EndsWithTestSuffix(f)

Yielded == Range(walk.yielded)
Visited == Range(walk.visited)

IsBelow(d, anc) == IsPrefixSeq(anc, d) /\ d # anc

\* C1: one pass never yields two paths of which one names an ancestor of (or the
\* same directory as) the other.
C1_NoNestedYields ==
    \A i, j \in 1..Len(walk.yielded) :
        i # j => ~IsPrefixSeq(Resolve(walk.yielded[i]), Resolve(walk.yielded[j]))

\* the pass is over, a directory was yielded, and a directory below it holds a
\* test file too
C1_Witness ==
    /\ wpc = "done"
    /\ \E y \in Yielded : \E d \in dirs :
           IsBelow(d, Resolve(y)) /\ HoldsTest(d) /\ \A k \in 1..Len(d) : Head(d[k]) \in Letters

\* C2 as claimed: no yielded path names a blacklisted directory or a directory
\* below one, whatever the root.
C2_BlacklistedNeverYielded ==
    \A b \in blacklist : \A y \in Yielded : ~IsPrefixSeq(Resolve(b), Resolve(y))

\* the path strings the walk forms on the way from start_dir down to y, y included
\* and start_dir excluded
JoinedPathsTo(y) ==
    {SubSeq(y, 1, k) : k \in {n \in (Len(start_dir) + 1)..Len(y) : n = Len(y) \/ y[n + 1] = "/"}}

\* C2 amended: no yielded path is, or lies below, a directory strictly below the
\* root whose joined path string is in the blacklist.
C2_BlacklistedBelowRootNeverYielded ==
    \A y \in Yielded : JoinedPathsTo(y) \cap blacklist = {}

\* the pass is over; a visited directory without tests has a subdirectory with an
\* alphabetic name that holds a test file, is blacklisted, and was not yielded
C2_Witness ==
    /\ wpc = "done"
    /\ \E v \in Visited \ Yielded : \E n \in WalkNames :
           /\ Head(n) \in Letters
           /\ Append(Resolve(v), n) \in dirs
           /\ HoldsTest(Append(Resolve(v), n))
           /\ Join(v, n) \in blacklist
           /\ Join(v, n) \notin Yielded

\* C5: every yielded path names a directory that directly holds a file whose name
\* ends with '_test.py'.
C5_YieldedHoldTest ==
    \A y \in Yielded : Resolve(y) \in dirs /\ HoldsTest(Resolve(y))

\* the pass is over; a visited directory without a test file of its own was not
\* yielded although one of its subdirectories was
C5_Witness ==
    /\ wpc = "done"
    /\ \E v \in Visited \ Yielded : \E y \in Yielded :
           ~HoldsTest(Resolve(v)) /\ IsBelow(Resolve(y), Resolve(v))

\* the names of the path string p below start_dir
NamesBelowStart(p) == SubSeq(Split(p), Len(Split(start_dir)) + 1, Len(Split(p)))

\* C9: no directory is visited, queued or yielded that is, or lies below, a
\* subdirectory whose name starts with a non-alphabetic character.
C9_NonAlphaNeverEntered ==
    \A p \in Visited \cup Yielded \cup Range(walk.pending) :
        \A k \in 1..Len(NamesBelowStart(p)) : Head(NamesBelowStart(p)[k]) \in Letters

\* the pass is over; a visited directory without tests has a subdirectory "_c"
\* that holds a test file and was not visited
C9_Witness ==
    /\ wpc = "done"
    /\ \E v \in Visited \ Yielded :
           /\ Append(Resolve(v), N_c) \in dirs
           /\ HoldsTest(Append(Resolve(v), N_c))
           /\ Join(v, N_c) \notin Visited

----------------------------------------------------------------------------
(* Properties of filter_samples, checked under SpecFilter *)

\* the candidate path with one leading "./" removed
WithoutDotSlash(c) ==
    IF Len(c) >= 2 /\ c[1] = "." /\ c[2] = "/" THEN SubSeq(c, 3, Len(c)) ELSE c

C4_Idempotent == fpc = "refiltered" => Range(refiltered) = Range(filtered)

SingleDotSlash(c) == ~IsPrefixSeq(DotSlash \o DotSlash, c)

\* C4 amended: filtering the filtered list again returns the same set when no
\* candidate starts with "./" twice.
C4_IdempotentSingleDotSlash ==
    (fpc = "refiltered" /\ \A i \in 1..Len(sample_dirs) : SingleDotSlash(sample_dirs[i]))
        => Range(refiltered) = Range(filtered)

\* a "./"-prefixed candidate survived both passes
C4_Witness ==
    /\ fpc = "refiltered"
    /\ \A i \in 1..Len(sample_dirs) : SingleDotSlash(sample_dirs[i])
    /\ \E i \in 1..Len(sample_dirs) :
           /\ IsPrefixSeq(DotSlash, sample_dirs[i])
           /\ WithoutDotSlash(sample_dirs[i]) # <<>>
           /\ WithoutDotSlash(sample_dirs[i]) \in Range(refiltered)

----------------------------------------------------------------------------
(* Properties of run_tests_in_sesssion, checked under SpecRun *)

IsPytest(c) == c.cmd = "py.test"
Succeeded(c) == IF IsPytest(c) THEN c.code = 0 \/ c.code = 5 ELSE c.code = 0

\* the samples handed to py.test so far, in order
Tested == [i \in 1..Len(SelectSeq(log, IsPytest)) |-> SelectSeq(log, IsPytest)[i].sample]

MoreSamples == Pull(candidates, FALSE).some

\* C6: a py.test exit status of 0 or 5 lets the batch go on, and the run ends
\* "done" only when no sample is left; any other status fails the run at once,
\* so a failed command is the last command of the run.
C6_FirstFailureStopsBatch ==
    /\ \A i \in 1..Len(log) :
           IF Succeeded(log[i])
           THEN i = Len(log) => pc # "failed"
           ELSE i = Len(log) /\ pc = "failed"
    /\ pc = "done" => ~MoreSamples

\* a sample whose py.test found no tests (5) was followed by a sample whose
\* py.test failed, and a further sample is left untested
C6_Witness ==
    /\ pc = "failed"
    /\ MoreSamples
    /\ \E i, j \in 1..Len(log) :
           /\ i < j /\ j = Len(log)
           /\ IsPytest(log[i]) /\ log[i].code = 5
           /\ IsPytest(log[j]) /\ log[j].code = 1

Unset(e) ==
    e.TRAVIS_PULL_REQUEST = None \/ e.TRAVIS_COMMIT = None \/ e.TRAVIS_BRANCH = None

\* C7: whenever one of TRAVIS_PULL_REQUEST, TRAVIS_COMMIT, TRAVIS_BRANCH is unset,
\* get_changed_files returns the empty set and raises nothing.
C7_DegradesToEmpty ==
    (changes.known /\ Unset(env)) => (changes.raised = "" /\ changes.set = {})

\* C8: with positional arguments the candidate list is exactly those arguments,
\* no collect_sample_dirs generator is advanced, and every sample handed to
\* py.test is one of them (in their order; with changed_only, with "./" removed).
C8_PosargsOverrideDiscovery ==
    posargs # <<>> =>
        /\ ~walked
        /\ pc \in {"changed", "filter"} => candidates = [items |-> posargs, gens |-> <<>>]
        /\ pc \notin {"start", "dev", "gae", "select"} => candidates.gens = <<>>
        /\ IF session.changed_only
           THEN Range(Tested) \subseteq {WithoutDotSlash(posargs[i]) : i \in 1..Len(posargs)}
           ELSE IsPrefixSeq(Tested, posargs)

\* a session that passes its own sample_directories and sets changed_only ran to
\* the end on positional arguments and tested one with its "./" removed
C8_Witness ==
    /\ pc = "done"
    /\ posargs # <<>>
    /\ session.sample_directories.given /\ session.changed_only
    /\ \E s \in Range(Tested) : s \notin Range(posargs)

NoChangedFiles ==
    session.changed_only /\ changes.known /\ changes.raised = "" /\ changes.set = {}

\* C10: with changed_only set and an empty changed-file set, the filtered list is
\* empty, no sample's requirements are installed and py.test is never invoked.
C10_NothingChangedNothingTested ==
    NoChangedFiles =>
        /\ pc \in {"filter", "loop", "done"}
        /\ pc # "filter" => candidates = NoCandidates
        /\ \A i \in 1..Len(log) : log[i].sample = <<>> /\ ~IsPytest(log[i])

\* discovery had a sample to offer, nothing had changed, and the run is over
C10_Witness ==
    /\ NoChangedFiles
    /\ pc = "done"
    /\ posargs = <<>> /\ ~session.sample_directories.given
    /\ walked
    /\ collect_sample_dirs(Dot, TESTS_BLACKLIST) # <<>>

====
